---- MODULE Spec2Model ----
(***************************************************************************)
(* Terrain Lighting Eliminator (terrain_lighting_eliminator.py).           *)
(*                                                                         *)
(* The model follows main(): a path is either one file, handed straight to *)
(* scan_file, or a directory, walked by scan_folder, which hands each      *)
(* candidate file to scan_file_safe.  scan_file is modelled statement group*)
(* by statement group (sniff, read, load, the four slots, save), so that   *)
(* what is in memory and what is on disk are separate parts of the state.  *)
(* fix_course_file also has a specification of its own (SpecFix) that      *)
(* applies it to a bounded family of byte buffers.                         *)
(*                                                                         *)
(* Byte sequences are TLA+ sequences of 0..255; a Python offset p is the   *)
(* element p + 1.  File names are sequences of one-character strings.      *)
(***************************************************************************)
EXTENDS Integers, Sequences, FiniteSets, TLC

VARIABLES
    fs,                 \* the file system: path -> [kind, content]
    target,             \* args.path
    recursive,          \* args.recursive
    pc,                 \* where the program is
    stack,              \* the scan_folder frames, innermost last
    cur,                \* scan_file's fp
    safe,               \* TRUE when scan_file was called by scan_file_safe
    first_4,            \* scan_file's first_4
    is_compressed,      \* scan_file's is_compressed
    data,               \* scan_file's data
    u8,                 \* scan_file's u8 (course is u8["course"])
    slot_i,             \* scan_file's loop variable i
    total_fixes,        \* scan_file's total_fixes
    total_areas_fixed,  \* scan_file's total_areas_fixed
    cls,                \* history: the branch the sniffing took
    read_all,           \* history: fp.read_bytes() was executed by this call
    writes,             \* history: the fp.write_bytes() calls of this call
    outcome,            \* history: path -> how its scan_file call ended, this run
    prev,               \* history: outcome of the previous run
    handed,             \* history: the paths handed to scan_file, in order
    entered,            \* history: the directories scan_folder listed, in order
    fs0,                \* history: the file system when this run started
    runs,               \* history: how many times the program was started
    fixIn,              \* SpecFix: the argument of fix_course_file
    fixOut              \* SpecFix: its result

vars == <<fs, target, recursive, pc, stack, cur, safe, first_4, is_compressed,
          data, u8, slot_i, total_fixes, total_areas_fixed, cls, read_all,
          writes, outcome, prev, handed, entered, fs0, runs, fixIn, fixOut>>

---------------------------------------------------------------------------
(* Bounds of the model. *)

\* The record arrays of the generated slot buffers hold up to this many records.
MaxRecords == 2

\* The program is started at most this many times on the same file system.
MaxRuns == 2

---------------------------------------------------------------------------
(* fix_course_file *)

\* 0x48: where '>II' is unpacked from.
HeaderOff == 72

\* The stride of the records.
RecordSize == 24

\* The offset of the terrain lighting field in a record.
FlagOff == 10

\* data[p] for a Python offset p.
At(d, p) == d[p + 1]

\* struct.unpack_from('>I', d, p)
U32(d, p) == ((At(d, p) * 256 + At(d, p + 1)) * 256 + At(d, p + 2)) * 256 + At(d, p + 3)

\* struct.unpack_from('>H', d, p)
U16(d, p) == At(d, p) * 256 + At(d, p + 1)

\* struct.pack_into('>H', d, p, 0)
PackZero16(d, p) == [q \in 1 .. Len(d) |-> IF q = p + 1 \/ q = p + 2 THEN 0 ELSE d[q]]

\* struct raises struct.error when the n bytes at p are not all inside d.
Fits(d, p, n) == p + n <= Len(d)

\* RecordCount with the remainder counted as one more record.
RecordCountCeil(zones_size) == (zones_size + RecordSize - 1) \div RecordSize

\* range(zones_size // 24)
RecordCount(zones_size) == zones_size \div RecordSize

\* off = zones_off + i * 24 + 10
FieldOff(zones_off, i) == zones_off + i * RecordSize + FlagOff

\* The for loop of fix_course_file from iteration i on.  A struct.error leaves
\* the loop with raised = TRUE; d is then the bytearray as it was at the raise.
RECURSIVE FixLoop(_, _, _, _, _)
FixLoop(d, zones_off, n, i, num_fixes) ==
    IF i >= n
    THEN [raised |-> FALSE, data |-> d, num_fixes |-> num_fixes]
    ELSE LET off == FieldOff(zones_off, i) IN
         IF ~Fits(d, off, 2)
         THEN [raised |-> TRUE, data |-> d, num_fixes |-> num_fixes]
         ELSE IF U16(d, off) # 0
              THEN FixLoop(PackZero16(d, off), zones_off, n, i + 1, num_fixes + 1)
              ELSE FixLoop(d, zones_off, n, i + 1, num_fixes)

fix_course_file(d) ==
    IF ~Fits(d, HeaderOff, 8)
    THEN [raised |-> TRUE, data |-> d, num_fixes |-> 0]
    ELSE FixLoop(d, U32(d, HeaderOff), RecordCount(U32(d, HeaderOff + 4)), 0, 0)

---------------------------------------------------------------------------
(* File names, pathlib's suffix and suffixes, sorted() *)

\* The code point of each character the model's names are written with.
CodePoint ==
    "." :> 46 @@ "A" :> 65 @@ "B" :> 66 @@ "C" :> 67 @@ "L" :> 76 @@ "R" :> 82 @@
    "Z" :> 90 @@ "a" :> 97 @@ "b" :> 98 @@ "c" :> 99 @@ "d" :> 100 @@ "e" :> 101 @@
    "l" :> 108 @@ "m" :> 109 @@ "n" :> 110 @@ "r" :> 114 @@ "s" :> 115 @@
    "t" :> 116 @@ "u" :> 117 @@ "x" :> 120 @@ "z" :> 122

Char == DOMAIN CodePoint

\* str.lower() on one character
LowerChar(c) ==
    IF CodePoint[c] >= 65 /\ CodePoint[c] <= 90
    THEN CHOOSE l \in Char : CodePoint[l] = CodePoint[c] + 32
    ELSE c

\* str.lower()
Lower(s) == [k \in 1 .. Len(s) |-> LowerChar(s[k])]

\* str.rfind('.'), as a Python index (-1: not found)
RFindDot(s) ==
    LET dots == {k \in 1 .. Len(s) : s[k] = "."}
    IN  IF dots = {} THEN -1 ELSE (CHOOSE k \in dots : \A j \in dots : j <= k) - 1

\* PurePath.suffix
Suffix(name) ==
    LET i == RFindDot(name)
    IN  IF 0 < i /\ i < Len(name) - 1 THEN SubSeq(name, i + 1, Len(name)) ELSE <<>>

\* str.lstrip('.')
RECURSIVE LStripDots(_)
LStripDots(s) ==
    IF s # <<>> /\ Head(s) = "." THEN LStripDots(Tail(s)) ELSE s

\* str.split('.')
RECURSIVE SplitDots(_)
SplitDots(s) ==
    LET dots == {k \in 1 .. Len(s) : s[k] = "."}
    IN  IF dots = {} THEN <<s>>
        ELSE LET k == CHOOSE d \in dots : \A j \in dots : d <= j
             IN  <<SubSeq(s, 1, k - 1)>> \o SplitDots(SubSeq(s, k + 1, Len(s)))

\* PurePath.suffixes
Suffixes(name) ==
    IF name # <<>> /\ name[Len(name)] = "." THEN <<>>
    ELSE LET parts == SplitDots(LStripDots(name))
         IN  [k \in 1 .. Len(parts) - 1 |-> <<".">> \o parts[k + 1]]

DotArc == <<".", "a", "r", "c">>

DotLz == <<".", "l", "z">>

\* does_path_look_like_level, of the path's last component
does_path_look_like_level(name) ==
    IF Lower(Suffix(name)) = DotArc THEN TRUE
    ELSE LET sfx == Suffixes(name)
         IN  IF Len(sfx) >= 2 /\ Lower(sfx[Len(sfx) - 1]) = DotArc
                              /\ Lower(sfx[Len(sfx)]) = DotLz
             THEN TRUE
             ELSE FALSE

\* a < b for two str: by code points, a proper prefix first
StrLess(a, b) ==
    \E k \in 1 .. Len(b) :
        /\ k <= Len(a) + 1
        /\ \A j \in 1 .. k - 1 : a[j] = b[j]
        /\ (k = Len(a) + 1 \/ CodePoint[a[k]] < CodePoint[b[k]])

\* p < q for two paths of one directory: Path compares its parts.
PathLess(p, q) == StrLess(p[Len(p)], q[Len(q)])

\* sorted(S) for a set of paths of one directory
RECURSIVE SortedPaths(_)
SortedPaths(S) ==
    IF S = {} THEN <<>>
    ELSE LET m == CHOOSE p \in S : \A q \in S \ {p} : PathLess(p, q)
         IN  <<m>> \o SortedPaths(S \ {m})

\* fp.iterdir(): the entries of directory dir
IterDir(f, dir) ==
    {p \in DOMAIN f : Len(p) = Len(dir) + 1 /\ SubSeq(p, 1, Len(dir)) = dir}

\* fp.iterdir() taken in another order than the sorted one.
ListingReversed(f, dir) ==
    LET l == SortedPaths(IterDir(f, dir))
    IN  [k \in 1 .. Len(l) |-> l[Len(l) + 1 - k]]

\* sorted(fp.iterdir())
Listing(f, dir) == SortedPaths(IterDir(f, dir))

\* Path.is_dir(), Path.is_file()
IsDir(f, p) == p \in DOMAIN f /\ f[p].kind = "dir"

IsFile(f, p) == p \in DOMAIN f /\ f[p].kind = "file"

---------------------------------------------------------------------------
(* File contents and the two codecs *)

(***************************************************************************)
(* A byte string that is a file's content or a container blob is a record  *)
(*   head : its first min(4, length) bytes                                 *)
(*   wrap : "lz" when it is LZ11-compressed data, "raw" otherwise          *)
(*   tag  : "u8" when (the decompressed form of) it is a well-formed U8    *)
(*          archive, "junk" otherwise                                      *)
(*   map  : the archive's mapping: keys, the top-level key list, and       *)
(*          course, the name -> bytes mapping of its "course" folder       *)
(***************************************************************************)

\* b'U\xAA8-'
Magic == <<85, 170, 56, 45>>

\* The first bytes of an LZ11 stream: 0x11, then the uncompressed size.
LzHead == <<17, 0, 1, 0>>

NoCourse == [n \in {} |-> <<>>]

NoMap == [keys |-> <<>>, course |-> NoCourse]

Junk(head) == [head |-> head, wrap |-> "raw", tag |-> "junk", map |-> NoMap]

\* nsmbpy2.u8.save
U8Save(m) == [head |-> Magic, wrap |-> "raw", tag |-> "u8", map |-> m]

\* nsmbpy2.u8.load raises on anything but an archive.
U8LoadRaises(d) == d.wrap # "raw" \/ d.tag # "u8"

\* nsmbpy2.u8.load
U8Load(d) == d.map

\* lz77.LZS11().Compress11LZS
Compress11LZS(d) == [d EXCEPT !.head = LzHead, !.wrap = "lz"]

\* lz77.LZS11().Decompress11LZS on anything but LZ11 data: it raises, or it
\* returns bytes that are no archive (ReadAll takes either).
DecompressRaises(d) == d.wrap # "lz"

\* lz77.LZS11().Decompress11LZS
Decompress11LZS(d) ==
    [d EXCEPT !.head = IF d.tag = "u8" THEN Magic ELSE <<0, 0, 0, 0>>, !.wrap = "raw"]

\* f'course{i}.bin'
CourseFn(i) ==
    CASE i = 1 -> "course1.bin"
      [] i = 2 -> "course2.bin"
      [] i = 3 -> "course3.bin"
      [] i = 4 -> "course4.bin"
      [] OTHER -> "course5.bin"

\* range(1, 4): the last slot is left out.
SlotRangeShort == 1 .. 3

\* range(1, 5)
SlotRange == 1 .. 4

\* 'course' in u8: other top-level keys are let through.
KeysHaveCourse(keys) == \E k \in 1 .. Len(keys) : keys[k] = "course"

\* list(u8.keys()) != ['course'], negated
KeysAreCourse(keys) == keys = <<"course">>

\* The if / elif chain on first_4: which branch is taken.  "error" is the
\* IndexError of first_4[0] on an empty first_4.
Classify(f4) ==
    IF f4 = Magic THEN "none"
    ELSE IF f4 = <<>> THEN "error"
    ELSE IF f4[1] = 17 THEN "lz11"
    ELSE IF f4[1] \div 16 = 4 THEN "unsupported"
    ELSE "unrecognized"

\* if total_fixes > 0
ShouldSave(n) == n > 0

\* OutputData without the recompression.
OutputDataRaw(m, compressed) == U8Save(m)

\* data = nsmbpy2.u8.save(u8); if is_compressed: data = Compress11LZS(data)
OutputData(m, compressed) ==
    IF compressed THEN Compress11LZS(U8Save(m)) ELSE U8Save(m)

---------------------------------------------------------------------------
(* scan_file, scan_file_safe, scan_folder, main *)

scanLocals == <<first_4, is_compressed, data, u8, slot_i, total_fixes,
                total_areas_fixed, cls, read_all, writes>>

history == <<handed, entered>>

env == <<target, recursive, fs0, runs, prev, fixIn, fixOut>>

NoData == Junk(<<>>)

\* A scan_folder frame: the directory, the loop it is in, the loop's position.
Frame(dir) == [dir |-> dir, pass |-> "files", idx |-> 1]

Top == stack[Len(stack)]

\* The innermost loop moves on to its next child.
Advance(st) == [st EXCEPT ![Len(st)].idx = @ + 1]

\* scan_folder returns: its caller's loop moves on.
Pop(st) ==
    IF Len(st) = 1 THEN <<>> ELSE Advance(SubSeq(st, 1, Len(st) - 1))

\* scan_file goes on to its next statement.
Continue(next) == pc' = next /\ UNCHANGED <<stack, outcome>>

\* scan_file ends in way o.  An exception is caught by scan_file_safe, which
\* prints it and returns; without scan_file_safe it ends the program.
AfterScan(o) ==
    /\ outcome' = [outcome EXCEPT ![cur] = o]
    /\ IF safe THEN pc' = "walk" /\ stack' = Advance(stack)
       ELSE IF o = "raised" THEN pc' = "crashed" /\ stack' = stack
       ELSE pc' = "done" /\ stack' = stack

\* scan_file(p) is entered.
CallScan(p, s) ==
    /\ cur' = p
    /\ safe' = s
    /\ pc' = "sniff"
    /\ handed' = Append(handed, p)
    /\ first_4' = <<>>
    /\ is_compressed' = FALSE
    /\ data' = NoData
    /\ u8' = NoMap
    /\ slot_i' = 0
    /\ total_fixes' = 0
    /\ total_areas_fixed' = 0
    /\ cls' = "unset"
    /\ read_all' = FALSE
    /\ writes' = 0

\* main, after the argument parsing
Main ==
    /\ pc = "main"
    /\ IF IsFile(fs, target)
       THEN /\ CallScan(target, FALSE)
            /\ UNCHANGED <<stack, entered>>
       ELSE IF IsDir(fs, target)
       THEN /\ stack' = <<Frame(target)>>
            /\ entered' = Append(entered, target)
            /\ pc' = "walk"
            /\ UNCHANGED <<cur, safe, handed, scanLocals>>
       ELSE /\ pc' = "done"
            /\ UNCHANGED <<stack, cur, safe, history, scanLocals>>
    /\ UNCHANGED <<fs, outcome, env>>

\* scan_folder, one iteration of "for child in sorted(fp.iterdir())", first loop
WalkFile ==
    /\ pc = "walk"
    /\ Top.pass = "files"
    /\ Top.idx <= Len(Listing(fs, Top.dir))
    /\ LET child == Listing(fs, Top.dir)[Top.idx] IN
       IF ~IsDir(fs, child) /\ does_path_look_like_level(child[Len(child)])
       THEN /\ CallScan(child, TRUE)
            /\ UNCHANGED <<stack, entered>>
       ELSE /\ stack' = Advance(stack)
            /\ UNCHANGED <<pc, cur, safe, history, scanLocals>>
    /\ UNCHANGED <<fs, outcome, env>>

\* scan_folder, the first loop is over: "if recursive"
WalkFilesDone ==
    /\ pc = "walk"
    /\ Top.pass = "files"
    /\ Top.idx > Len(Listing(fs, Top.dir))
    /\ IF recursive
       THEN /\ stack' = [stack EXCEPT ![Len(stack)] = [@ EXCEPT !.pass = "dirs", !.idx = 1]]
            /\ pc' = pc
       ELSE /\ stack' = Pop(stack)
            /\ pc' = IF Len(stack) = 1 THEN "done" ELSE "walk"
    /\ UNCHANGED <<fs, outcome, cur, safe, history, scanLocals, env>>

\* scan_folder, one iteration of the second loop.  scan_folder(child) starts
\* with child.iterdir(), which raises when child is no directory; nothing
\* catches that.
WalkDir ==
    /\ pc = "walk"
    /\ Top.pass = "dirs"
    /\ Top.idx <= Len(Listing(fs, Top.dir))
    /\ LET child == Listing(fs, Top.dir)[Top.idx] IN
       IF IsFile(fs, child)
       THEN /\ stack' = Advance(stack)
            /\ UNCHANGED <<pc, entered>>
       ELSE IF IsDir(fs, child)
       THEN /\ stack' = Append(stack, Frame(child))
            /\ entered' = Append(entered, child)
            /\ pc' = pc
       ELSE /\ pc' = "crashed"
            /\ UNCHANGED <<stack, entered>>
    /\ UNCHANGED <<fs, outcome, cur, safe, handed, scanLocals, env>>

\* scan_folder, the second loop is over: return
WalkDirsDone ==
    /\ pc = "walk"
    /\ Top.pass = "dirs"
    /\ Top.idx > Len(Listing(fs, Top.dir))
    /\ stack' = Pop(stack)
    /\ pc' = IF Len(stack) = 1 THEN "done" ELSE "walk"
    /\ UNCHANGED <<fs, outcome, cur, safe, history, scanLocals, env>>

\* scan_file: open, read(4), and the if / elif chain
Sniff ==
    /\ pc = "sniff"
    /\ IF ~IsFile(fs, cur)
       THEN /\ AfterScan("raised")
            /\ UNCHANGED <<first_4, cls, is_compressed>>
       ELSE LET f4 == fs[cur].content.head
                c == Classify(f4)
            IN  /\ first_4' = f4
                /\ cls' = c
                /\ IF c = "error"
                   THEN AfterScan("raised") /\ UNCHANGED is_compressed
                   ELSE IF c \in {"unsupported", "unrecognized"}
                   THEN AfterScan("skipped") /\ UNCHANGED is_compressed
                   ELSE Continue("read") /\ is_compressed' = (c = "lz11")
    /\ UNCHANGED <<fs, cur, safe, history, env, data, u8, slot_i, total_fixes,
                   total_areas_fixed, read_all, writes>>

\* scan_file: data = fp.read_bytes(), and the decompression
ReadAll ==
    /\ pc = "read"
    /\ read_all' = TRUE
    /\ LET raw == fs[cur].content IN
       IF is_compressed
       THEN IF DecompressRaises(raw)
            THEN \/ data' = raw /\ AfterScan("raised")
                 \/ data' = Junk(<<0, 0, 0, 0>>) /\ Continue("load")
            ELSE data' = Decompress11LZS(raw) /\ Continue("load")
       ELSE data' = raw /\ Continue("load")
    /\ UNCHANGED <<fs, cur, safe, history, env, first_4, is_compressed, u8, slot_i,
                   total_fixes, total_areas_fixed, cls, writes>>

\* scan_file: u8 = load(data), the key list check, and the counters' start
Load ==
    /\ pc = "load"
    /\ IF U8LoadRaises(data)
       THEN /\ AfterScan("raised")
            /\ UNCHANGED <<u8, slot_i>>
       ELSE /\ u8' = U8Load(data)
            /\ IF KeysAreCourse(U8Load(data).keys)
               THEN Continue("slots") /\ slot_i' = 1
               ELSE AfterScan("not_target") /\ UNCHANGED slot_i
    /\ total_fixes' = 0
    /\ total_areas_fixed' = 0
    /\ UNCHANGED <<fs, cur, safe, history, env, first_4, is_compressed, data, cls,
                   read_all, writes>>

\* FixSlot writing the file as soon as a slot has been patched.
FixSlotEager ==
    /\ pc = "slots"
    /\ slot_i \in SlotRange
    /\ LET course_fn == CourseFn(slot_i) IN
       IF course_fn \notin DOMAIN u8.course
       THEN /\ slot_i' = slot_i + 1
            /\ Continue("slots")
            /\ UNCHANGED <<u8, total_fixes, total_areas_fixed, fs>>
       ELSE LET r == fix_course_file(u8.course[course_fn]) IN
            IF r.raised
            THEN /\ AfterScan("raised")
                 /\ UNCHANGED <<slot_i, u8, total_fixes, total_areas_fixed, fs>>
            ELSE /\ slot_i' = slot_i + 1
                 /\ Continue("slots")
                 /\ IF r.num_fixes > 0
                    THEN /\ total_fixes' = total_fixes + r.num_fixes
                         /\ total_areas_fixed' = total_areas_fixed + 1
                         /\ u8' = [u8 EXCEPT !.course[course_fn] = r.data]
                         /\ fs' = [fs EXCEPT ![cur].content =
                                      OutputData([u8 EXCEPT !.course[course_fn] = r.data],
                                                 is_compressed)]
                    ELSE UNCHANGED <<u8, total_fixes, total_areas_fixed, fs>>
    /\ UNCHANGED <<cur, safe, history, env, first_4, is_compressed, data, cls,
                   read_all, writes>>

\* scan_file: one iteration of "for i in range(1, 5)"
FixSlot ==
    /\ pc = "slots"
    /\ slot_i \in SlotRange
    /\ LET course_fn == CourseFn(slot_i) IN
       IF course_fn \notin DOMAIN u8.course
       THEN /\ slot_i' = slot_i + 1
            /\ Continue("slots")
            /\ UNCHANGED <<u8, total_fixes, total_areas_fixed>>
       ELSE LET r == fix_course_file(u8.course[course_fn]) IN
            IF r.raised
            THEN /\ AfterScan("raised")
                 /\ UNCHANGED <<slot_i, u8, total_fixes, total_areas_fixed>>
            ELSE /\ slot_i' = slot_i + 1
                 /\ Continue("slots")
                 /\ IF r.num_fixes > 0
                    THEN /\ total_fixes' = total_fixes + r.num_fixes
                         /\ total_areas_fixed' = total_areas_fixed + 1
                         /\ u8' = [u8 EXCEPT !.course[course_fn] = r.data]
                    ELSE UNCHANGED <<u8, total_fixes, total_areas_fixed>>
    /\ UNCHANGED <<fs, cur, safe, history, env, first_4, is_compressed, data, cls,
                   read_all, writes>>

\* scan_file: "if total_fixes > 0": save, recompress, write
Finish ==
    /\ pc = "slots"
    /\ slot_i \notin SlotRange
    /\ IF ShouldSave(total_fixes)
       THEN /\ data' = OutputData(u8, is_compressed)
            /\ fs' = [fs EXCEPT ![cur].content = OutputData(u8, is_compressed)]
            /\ writes' = writes + 1
            /\ AfterScan("written")
       ELSE /\ UNCHANGED <<data, fs, writes>>
            /\ AfterScan("nofix")
    /\ UNCHANGED <<cur, safe, history, env, first_4, is_compressed, u8, slot_i,
                   total_fixes, total_areas_fixed, cls, read_all>>

\* The program is started again on the file system the last run left.
Rerun ==
    /\ pc \in {"done", "crashed"}
    /\ runs < MaxRuns
    /\ runs' = runs + 1
    /\ pc' = "main"
    /\ stack' = <<>>
    /\ fs0' = fs
    /\ prev' = outcome
    /\ outcome' = [p \in DOMAIN fs |-> "none"]
    /\ handed' = <<>>
    /\ entered' = <<>>
    /\ UNCHANGED <<fs, target, recursive, cur, safe, scanLocals, fixIn, fixOut>>

---------------------------------------------------------------------------
(* The inputs: slot buffers, archives, files, directory trees *)

\* Byte k (0: the most significant) of the 4-byte big-endian form of v.
BigEndian(v, k) ==
    CASE k = 0 -> (v \div 16777216) % 256
      [] k = 1 -> (v \div 65536) % 256
      [] k = 2 -> (v \div 256) % 256
      [] OTHER -> v % 256

(***************************************************************************)
(* A slot buffer of len bytes whose header gives the record array offset   *)
(* off and byte length size.  Every byte is 0xAB, except the header and    *)
(* the 2-byte field at off + 24 i + 10, i in 0 .. MaxRecords, which is     *)
(* nonzero (00 01 for even i, 01 00 for odd i) when i is in dirty and 00 00*)
(* otherwise.  The header is written last.                                 *)
(***************************************************************************)
MkSlot(len, off, size, dirty) ==
    [q \in 1 .. len |->
        LET p == q - 1
            hit == {i \in 0 .. MaxRecords : p = off + 24 * i + 10 \/ p = off + 24 * i + 11}
        IN  IF p >= 72 /\ p < 76 THEN BigEndian(off, p - 72)
            ELSE IF p >= 76 /\ p < 80 THEN BigEndian(size, p - 76)
            ELSE IF hit = {} THEN 171
            ELSE LET i == CHOOSE j \in hit : TRUE
                 IN  IF i \notin dirty THEN 0
                     ELSE IF (p = off + 24 * i + 11) = (i % 2 = 0) THEN 1 ELSE 0]

\* The arguments SpecFix applies fix_course_file to.
SlotInputs ==
    {MkSlot(len, off, size, dirty) :
        len \in {0, 79, 80, 80 + 24 * MaxRecords, 105 + 24 * MaxRecords},
        off \in {0, 64, 80, 81, 104},
        size \in {0, 1, 23, 24, 25, 24 * MaxRecords, 24 * MaxRecords + 23},
        dirty \in SUBSET (0 .. MaxRecords)}

\* The four area slots a level can hold, and their names.
Areas == 1 .. 4

SlotName == <<"course1.bin", "course2.bin", "course3.bin", "course4.bin">>

\* Two records, no flag set.
SlotClean == MkSlot(80 + 24 * MaxRecords, 80, 24 * MaxRecords, {})

\* Record 0 has flag 00 01, the others 00 00.
SlotDirty == MkSlot(80 + 24 * MaxRecords, 80, 24 * MaxRecords, {0})

\* Every record's flag is set; 23 more bytes follow the last record, and the
\* field a further record would have there is set too.
SlotTail == MkSlot(105 + 24 * MaxRecords, 81, 24 * MaxRecords + 23, 0 .. MaxRecords)

\* The record array starts at 0x40: record 0's flag is bytes 2..3 of the
\* header's offset field.
SlotOverlap == MkSlot(104, 64, 24, {})

\* Shorter than the header.
SlotShort == MkSlot(79, 0, 0, {})

\* Record 0's flag is set; the last record's flag lies outside the buffer.
SlotPartOut == MkSlot(80 + 24 * MaxRecords - 13, 80, 24 * MaxRecords, {0})

SlotPool == <<SlotClean, SlotDirty, SlotTail, SlotOverlap, SlotShort, SlotPartOut>>

\* The "course" folder whose courseI.bin is SlotPool[c[i]] (absent when c[i]
\* is 0), beside a course5.bin, which is no slot.
CourseOf(c) ==
    [n \in {SlotName[i] : i \in {j \in Areas : c[j] # 0}} \cup {"course5.bin"} |->
        IF n = "course5.bin" THEN SlotDirty
        ELSE SlotPool[c[CHOOSE i \in Areas : SlotName[i] = n]]]

Archive(keys, c) == U8Save([keys |-> keys, course |-> CourseOf(c)])

\* A level with one area, whose record 0 has the flag set.
Level == Archive(<<"course">>, [i \in Areas |-> IF i = 1 THEN 2 ELSE 0])

\* The top-level key lists of archives that are no level.
OtherKeys == {<<>>, <<"sound">>, <<"course", "sound">>, <<"sound", "course">>}

\* The contents main is given as a single file.
SingleFiles ==
    LET raw == {Archive(<<"course">>, c) : c \in [Areas -> 0 .. Len(SlotPool)]}
               \cup {Archive(k, [i \in Areas |-> 2]) : k \in OtherKeys}
               \cup {[Junk(<<0, 0, 0, 0>>) EXCEPT !.head = Magic]}
    IN  raw \cup {Compress11LZS(d) : d \in raw}
        \cup {Junk(h) : h \in {<<>>, <<17>>, <<17, 0, 1, 0>>, <<65>>, <<79, 1, 2, 3>>,
                               <<85, 170, 56>>, <<85, 170, 56, 44>>, <<0, 0, 0, 0>>,
                               <<80, 0, 0, 0>>, <<63, 255>>}}
        \cup {Compress11LZS(Junk(<<0, 0, 0, 0>>))}

nDotArc == <<".", "a", "r", "c">>
nA == <<"a", ".", "a", "r", "c">>
nB == <<"b", ".", "A", "R", "C", ".", "L", "Z">>
nC == <<"c", ".", "t", "x", "t">>
nD == <<"d", ".", "a", "r", "c">>
nE == <<"e", ".", "a", "r", "c", ".", "l", "z">>
nM == <<"m">>
nN == <<"n">>
nS == <<"s", "u", "b">>
nT == <<"t">>
nU == <<"u", ".", "A", "R", "C">>
nX == <<"x", ".", "t", "x", "t", ".", "a", "r", "c", ".">>
nZ == <<"z", ".", "a", "r", "c">>

FileE(c) == [kind |-> "file", content |-> c]
DirE == [kind |-> "dir", content |-> NoData]
OtherE == [kind |-> "other", content |-> NoData]

NoFs == [p \in {} |-> DirE]

\* An entry that is "absent", a "file", a "dir" or neither ("other": a
\* dangling symbolic link, say).
Entry(p, kind, c) ==
    CASE kind = "absent" -> NoFs
      [] kind = "file" -> p :> FileE(c)
      [] kind = "dir" -> p :> DirE
      [] OTHER -> p :> OtherE

(***************************************************************************)
(*   .arc  a.arc  b.ARC.LZ  c.txt  x.txt.arc.   files                      *)
(*   m        absent, a file, neither, or a directory holding e.arc.lz     *)
(*   sub/     d.arc, and n: absent, neither, or a directory holding u.ARC  *)
(*   t/       a.arc                                                        *)
(*   z.arc    absent, a directory, or neither                              *)
(***************************************************************************)
Tree(ca, cb, cd, mk, nk, zk) ==
    (<<>> :> DirE)
    @@ (<<nDotArc>> :> FileE(Level)) @@ (<<nA>> :> FileE(ca)) @@ (<<nB>> :> FileE(cb))
    @@ (<<nC>> :> FileE(Level)) @@ (<<nX>> :> FileE(Level))
    @@ Entry(<<nM>>, mk, Level)
    @@ (IF mk = "dir" THEN <<nM, nE>> :> FileE(Compress11LZS(Level)) ELSE NoFs)
    @@ (<<nS>> :> DirE) @@ (<<nS, nD>> :> FileE(cd))
    @@ Entry(<<nS, nN>>, nk, Level)
    @@ (IF nk = "dir" THEN <<nS, nN, nU>> :> FileE(Level) ELSE NoFs)
    @@ (<<nT>> :> DirE) @@ (<<nT, nA>> :> FileE(Level))
    @@ Entry(<<nZ>>, zk, Level)

Trees ==
    {Tree(ca, cb, cd, mk, nk, zk) :
        ca \in {Level, [Junk(<<0, 0, 0, 0>>) EXCEPT !.head = Magic], Junk(<<>>)},
        cb \in {Compress11LZS(Level), Junk(LzHead)},
        cd \in {Level, Junk(<<65, 0, 0, 0>>)},
        mk \in {"absent", "file", "dir", "other"},
        nk \in {"absent", "dir", "other"},
        zk \in {"absent", "dir", "other"}}

\* main is given one file, a directory, or a path that does not exist.
Inputs ==
    {[fs |-> (<<>> :> DirE) @@ (<<nA>> :> FileE(c)), target |-> <<nA>>, recursive |-> FALSE] :
        c \in SingleFiles}
    \cup {[fs |-> t, target |-> <<>>, recursive |-> r] : t \in Trees, r \in BOOLEAN}
    \cup {[fs |-> (<<>> :> DirE) @@ (<<nM>> :> k), target |-> <<nM>>, recursive |-> FALSE] :
        k \in {OtherE}}
    \cup {[fs |-> (<<>> :> DirE), target |-> <<nM>>, recursive |-> TRUE]}

NoFix == [raised |-> FALSE, data |-> <<>>, num_fixes |-> 0]

Idle ==
    /\ stack = <<>>
    /\ cur = <<>>
    /\ safe = FALSE
    /\ first_4 = <<>>
    /\ is_compressed = FALSE
    /\ data = NoData
    /\ u8 = NoMap
    /\ slot_i = 0
    /\ total_fixes = 0
    /\ total_areas_fixed = 0
    /\ cls = "unset"
    /\ read_all = FALSE
    /\ writes = 0
    /\ handed = <<>>
    /\ entered = <<>>
    /\ runs = 1

Init ==
    /\ \E in \in Inputs :
        /\ fs = in.fs
        /\ target = in.target
        /\ recursive = in.recursive
    /\ fs0 = fs
    /\ outcome = [p \in DOMAIN fs |-> "none"]
    /\ prev = outcome
    /\ pc = "main"
    /\ Idle
    /\ fixIn = <<>>
    /\ fixOut = NoFix

Next ==
    \/ Main
    \/ WalkFile
    \/ WalkFilesDone
    \/ WalkDir
    \/ WalkDirsDone
    \/ Sniff
    \/ ReadAll
    \/ Load
    \/ FixSlot
    \/ Finish
    \/ Rerun

Spec == Init /\ [][Next]_vars

---------------------------------------------------------------------------
(* fix_course_file on its own *)

InitFix ==
    /\ fixIn \in SlotInputs
    /\ fixOut = NoFix
    /\ pc = "fix"
    /\ fs = (<<>> :> DirE)
    /\ target = <<>>
    /\ recursive = FALSE
    /\ fs0 = fs
    /\ outcome = [p \in DOMAIN fs |-> "none"]
    /\ prev = outcome
    /\ Idle

\* new_course_data, num_fixes = fix_course_file(...)
CallFix ==
    /\ pc = "fix"
    /\ fixOut' = fix_course_file(fixIn)
    /\ pc' = "fixed"
    /\ UNCHANGED <<fs, target, recursive, stack, cur, safe, scanLocals, outcome, prev,
                   history, fs0, runs, fixIn>>

NextFix == CallFix

SpecFix == InitFix /\ [][NextFix]_vars

---------------------------------------------------------------------------
(* What the claims speak of, stated apart from the operators above *)

\* The header's two fields.
HdrOff(d) == U32(d, 72)

HdrLen(d) == U32(d, 76)

\* The header describes a record array lying inside the buffer.
ArrayInside(d) == Len(d) >= 80 /\ HdrOff(d) + HdrLen(d) <= Len(d)

\* The Python offsets of the flag bytes of the records of d.
FlagBytes(d) ==
    {HdrOff(d) + 24 * i + 10 + b : i \in 0 .. (HdrLen(d) \div 24) - 1, b \in {0, 1}}

\* The records of d whose flag is not zero.
NonzeroRecords(d) ==
    IF Len(d) < 80 THEN {}
    ELSE {i \in 0 .. (HdrLen(d) \div 24) - 1 :
             /\ HdrOff(d) + 24 * i + 12 <= Len(d)
             /\ U16(d, HdrOff(d) + 24 * i + 10) # 0}

\* d with the flag of every record zero.
ZeroedFlags(d) == [q \in 1 .. Len(d) |-> IF q - 1 \in FlagBytes(d) THEN 0 ELSE d[q]]

\* The mapping a file content decodes to.
Decoded(c) == IF c.wrap = "lz" THEN U8Load(Decompress11LZS(c)) ELSE U8Load(c)

\* The file content is a container, compressed or not.
IsContainer(c) ==
    /\ c.tag = "u8"
    /\ \/ c.wrap = "raw" /\ c.head = Magic
       \/ c.wrap = "lz" /\ c.head # <<>> /\ c.head[1] = 17

\* The slots present in mapping m.
Present(m) == {i \in Areas : SlotName[i] \in DOMAIN m.course}

\* The present slots of m with a record whose flag is not zero.
DirtySlots(m) == {i \in Present(m) : NonzeroRecords(m.course[SlotName[i]]) # {}}

NonzeroIn(m, i) ==
    IF i \in Present(m) THEN Cardinality(NonzeroRecords(m.course[SlotName[i]])) ELSE 0

\* scan_file has been called in this run and not yet called again.
InScan == handed # <<>> /\ cur = handed[Len(handed)]

\* The call of scan_file on cur is over, in one of these ways.
Ended(ways) == InScan /\ outcome[cur] \in ways

Range(sq) == {sq[k] : k \in DOMAIN sq}

---------------------------------------------------------------------------
(* C1 *)

(***************************************************************************)
(* C1: when the header of the argument describes a record array lying      *)
(* inside the buffer, fix_course_file raises nothing and returns a buffer  *)
(* of the same length in which the two flag bytes of every record i in     *)
(* 0 .. length div 24 - 1 are zero and every other byte, the header and    *)
(* the length % 24 remainder included, is the argument's byte.             *)
(***************************************************************************)
C1_PatchExact ==
    (pc = "fixed" /\ ArrayInside(fixIn)) =>
        /\ ~fixOut.raised
        /\ Len(fixOut.data) = Len(fixIn)
        /\ \A p \in 0 .. Len(fixIn) - 1 :
              fixOut.data[p + 1] = IF p \in FlagBytes(fixIn) THEN 0 ELSE fixIn[p + 1]

\* A buffer of two dirty records followed by a 23-byte remainder in which the
\* field of a further record would be nonzero has been patched.
C1_Witness ==
    /\ pc = "fixed"
    /\ ArrayInside(fixIn)
    /\ HdrLen(fixIn) % 24 = 23
    /\ fixOut.num_fixes >= 2
    /\ fixOut.data # fixIn
    /\ U16(fixIn, HdrOff(fixIn) + 24 * (HdrLen(fixIn) \div 24) + 10) # 0

---------------------------------------------------------------------------
(* C2 *)

(***************************************************************************)
(* C2: when scan_file has gone through the four slots without an error,    *)
(* total_fixes is the number of records, over the present slots            *)
(* course1.bin .. course4.bin of the decoded file, whose flag was nonzero  *)
(* before patching, and total_areas_fixed is the number of present slots   *)
(* with such a record; an absent slot adds nothing.                        *)
(***************************************************************************)
C2_FixCounts ==
    Ended({"nofix", "written"}) =>
        LET m == Decoded(fs0[cur].content)
        IN  /\ total_fixes = NonzeroIn(m, 1) + NonzeroIn(m, 2) + NonzeroIn(m, 3) + NonzeroIn(m, 4)
            /\ total_areas_fixed = Cardinality(DirtySlots(m))

\* A level with an absent slot, a clean slot and two dirty slots, one of them
\* with more than one record to fix, has been patched.
C2_Witness ==
    /\ Ended({"written"})
    /\ total_areas_fixed = 2
    /\ total_fixes > 2
    /\ LET m == Decoded(fs0[cur].content)
       IN  /\ Present(m) # Areas
           /\ 4 \in DirtySlots(m)
           /\ DirtySlots(m) # Present(m)

---------------------------------------------------------------------------
(* C3 *)

\* The first bytes are neither the container magic nor start with 0x11, or
\* the file decodes to a container whose key list is not exactly ["course"].
NonTarget(c) ==
    \/ c.head # Magic /\ (c.head = <<>> \/ c.head[1] # 17)
    \/ IsContainer(c) /\ Decoded(c).keys # <<"course">>

(***************************************************************************)
(* C3: a file that is no target (its first bytes are neither the magic nor *)
(* start with 0x11, or it decodes to a container whose top-level key list  *)
(* is not exactly ["course"]) has on disk the bytes it had when the run    *)
(* started, at every moment of the run.                                    *)
(***************************************************************************)
C3_NonTargetUntouched ==
    \A p \in DOMAIN fs :
        (fs0[p].kind = "file" /\ NonTarget(fs0[p].content)) => fs[p] = fs0[p]

\* scan_file has read and decoded a compressed container whose key list is
\* ["course", "sound"] and whose course1.bin holds a record to fix, and has
\* returned.
C3_Witness ==
    /\ Ended({"not_target"})
    /\ read_all
    /\ is_compressed
    /\ u8.keys = <<"course", "sound">>
    /\ 1 \in DirtySlots(u8)

---------------------------------------------------------------------------
(* C9 *)

\* What a write must leave on disk for a file whose content was c.
ExpectedOutput(c) ==
    LET m == Decoded(c)
        patched == [n \in DOMAIN m.course |->
                       IF \E i \in DirtySlots(m) : SlotName[i] = n
                       THEN ZeroedFlags(m.course[n])
                       ELSE m.course[n]]
        saved == U8Save([keys |-> m.keys, course |-> patched])
    IN  IF c.head # Magic /\ c.head[1] = 17 THEN Compress11LZS(saved) ELSE saved

(***************************************************************************)
(* C9: a call of scan_file writes the file at most once; it writes only    *)
(* with total_fixes > 0, and a call that reaches the test of total_fixes   *)
(* writes exactly when total_fixes > 0.  What is written is the encoding   *)
(* of the decoded mapping with the slots that had a fix replaced by their  *)
(* patched bytes and all else as decoded, compressed exactly when the file *)
(* was classified as compressed.  Without a write the file is as it was.   *)
(***************************************************************************)
C9_WriteDecision ==
    InScan =>
        /\ writes <= 1
        /\ writes = 1 => (total_fixes > 0 /\ fs[cur].content = ExpectedOutput(fs0[cur].content))
        /\ writes = 0 => fs[cur] = fs0[cur]
        /\ Ended({"nofix", "written"}) => (writes = 1 <=> total_fixes > 0)

\* A compressed level with a dirty and a clean slot has been rewritten, and
\* is still compressed.
C9_Witness ==
    /\ Ended({"written"})
    /\ is_compressed
    /\ writes = 1
    /\ fs[cur].content.wrap = "lz"
    /\ fs[cur] # fs0[cur]
    /\ LET m == Decoded(fs0[cur].content)
       IN  DirtySlots(m) # {} /\ DirtySlots(m) # Present(m)

---------------------------------------------------------------------------
(* C10 *)

(***************************************************************************)
(* C10: when fix_course_file raises on a present slot of a file (the slot  *)
(* is shorter than the header, or a flag offset lies outside the slot),    *)
(* the file is not written and has on disk the bytes it had before, also   *)
(* when earlier slots, or earlier records of the failing slot, had their   *)
(* flags zeroed in memory.                                                 *)
(***************************************************************************)
C10_NoWriteOnError ==
    (Ended({"raised"}) /\ slot_i \in Areas) =>
        /\ writes = 0
        /\ fs[cur] = fs0[cur]

\* The failing slot is not the first, an earlier slot was patched in memory,
\* and the failing slot had a record zeroed before the failure.
C10_Witness ==
    /\ Ended({"raised"})
    /\ slot_i \in Areas
    /\ slot_i > 1
    /\ total_fixes > 0
    /\ u8.course # Decoded(fs0[cur].content).course
    /\ LET d == u8.course[SlotName[slot_i]]
       IN  Len(d) >= 80 /\ fix_course_file(d).data # d

---------------------------------------------------------------------------
(* C7 *)

\* The class the four rules give the first bytes h of a file.
RuleClass(h) ==
    IF h = Magic THEN "none"
    ELSE IF h # <<>> /\ h[1] = 17 THEN "lz11"
    ELSE IF h # <<>> /\ h[1] \div 16 = 4 THEN "unsupported"
    ELSE "unrecognized"

\* scan_file has opened a regular file and is past its if / elif chain.
Sniffed == InScan /\ pc # "sniff" /\ IsFile(fs, cur)

(***************************************************************************)
(* C7: for a file of any length, shorter than 4 bytes included, the        *)
(* sniffing of scan_file yields the class the rules give (magic, then      *)
(* byte 0 = 0x11, then high nibble of byte 0 = 4, then the rest), and for  *)
(* an unsupported or unrecognized file scan_file returns normally, without *)
(* having read the rest of the file and without a write.                   *)
(***************************************************************************)
C7_TotalSilent ==
    Sniffed =>
        /\ cls = RuleClass(fs0[cur].content.head)
        /\ cls \in {"unsupported", "unrecognized"} =>
              (outcome[cur] = "skipped" /\ ~read_all /\ writes = 0)

---------------------------------------------------------------------------
(* C4 *)

\* How a call of scan_file ends without an error.
NoError == {"skipped", "not_target", "nofix", "written"}

(***************************************************************************)
(* C4: when the run before this one went through a file without an error,  *)
(* scan_file on the file that run left ends without an error, with         *)
(* total_fixes = 0 and without a write, and the file's bytes are those the *)
(* run before left.                                                        *)
(***************************************************************************)
C4_Idempotent ==
    (runs > 1 /\ InScan /\ prev[cur] \in NoError /\ outcome[cur] # "none") =>
        /\ outcome[cur] \in NoError
        /\ total_fixes = 0
        /\ writes = 0
        /\ fs[cur] = fs0[cur]

---------------------------------------------------------------------------
(* C5, C6, C8 *)

\* The name ends, whatever the case, in ".arc" or in ".arc.lz" after a stem
\* (for ".arc.lz": a stem that is not made of dots alone).
LevelName(name) ==
    LET n == Len(name) IN
    \/ n > 4 /\ Lower(SubSeq(name, n - 3, n)) = <<".", "a", "r", "c">>
    \/ /\ n > 7
       /\ Lower(SubSeq(name, n - 6, n)) = <<".", "a", "r", "c", ".", "l", "z">>
       /\ \E k \in 1 .. n - 7 : name[k] # "."

\* Directory d is target or lies under it, through directories only.
UnderTarget(d) ==
    /\ Len(d) >= Len(target)
    /\ \A k \in Len(target) .. Len(d) : IsDir(fs, SubSeq(d, 1, k))

\* The directories of the walk: target, and with recursive those under it.
WalkDirs == {d \in DOMAIN fs : UnderTarget(d) /\ (recursive \/ d = target)}

\* The candidates of the walk: the entries of those directories that are no
\* directory and are named like a level.
Candidates ==
    {p \in DOMAIN fs :
        /\ p # <<>>
        /\ SubSeq(p, 1, Len(p) - 1) \in WalkDirs
        /\ ~IsDir(fs, p)
        /\ LevelName(p[Len(p)])}

\* main was given a directory, and the program is over.
WalkOver == IsDir(fs, target) /\ pc \in {"done", "crashed"}

(***************************************************************************)
(* C5: a directory walk, recursive or not, is never aborted: it runs to    *)
(* completion, and at its end every candidate of the requested subtree has *)
(* been handed to scan_file, whatever failed on the other candidates.      *)
(***************************************************************************)
C5_WalkCompletes ==
    IsDir(fs, target) =>
        /\ pc # "crashed"
        /\ pc = "done" => Candidates \subseteq Range(handed)

(***************************************************************************)
(* C6: at the end of a directory walk, the entries handed to the file      *)
(* processor are exactly the non-directory entries named *.arc or *.arc.lz *)
(* (in any case) of the directory and, with recursive, of the directories  *)
(* reachable from it through subdirectories; the directories opened are    *)
(* exactly those directories.                                              *)
(***************************************************************************)
C6_WalkSelection ==
    WalkOver =>
        /\ Range(handed) = Candidates
        /\ Range(entered) = WalkDirs

\* The number of leading components two paths share.
CommonLen(p, q) ==
    CHOOSE c \in 0 .. Len(p) :
        /\ c <= Len(q)
        /\ \A k \in 1 .. c : p[k] = q[k]
        /\ (c = Len(p) \/ c = Len(q) \/ p[c + 1] # q[c + 1])

\* File p comes before file q: in the directory D where their paths part, a
\* file of D itself comes before whatever lies in a subdirectory of D, and
\* otherwise the names below D decide.
FileBefore(p, q) ==
    LET c == CommonLen(p, q) IN
    /\ c < Len(p)
    /\ c < Len(q)
    /\ IF Len(p) = c + 1 /\ Len(q) > c + 1 THEN TRUE
       ELSE IF Len(p) > c + 1 /\ Len(q) = c + 1 THEN FALSE
       ELSE StrLess(p[c + 1], q[c + 1])

\* Directory d is entered before directory e: d contains e, or, where their
\* paths part, d's name comes first.
DirBefore(d, e) ==
    LET c == CommonLen(d, e) IN
    /\ c < Len(e)
    /\ (c = Len(d) \/ StrLess(d[c + 1], e[c + 1]))

\* File p is due before directory e is entered: p is not inside e, and is a
\* file of a directory that contains e, or lies under an earlier name.
DueBefore(p, e) ==
    LET c == CommonLen(p, e) IN
    /\ c < Len(e)
    /\ c < Len(p)
    /\ (Len(p) = c + 1 \/ StrLess(p[c + 1], e[c + 1]))

(***************************************************************************)
(* C8: the files are handed to scan_file, and the directories are entered, *)
(* in the order of the walk: for every directory D, the candidates that    *)
(* are direct children of D in ascending name order, all of them before    *)
(* any file inside a subdirectory of D; the subdirectories of D in         *)
(* ascending name order, everything under one of them before the next is   *)
(* entered.  No file is handed twice.                                      *)
(***************************************************************************)
C8_WalkOrder ==
    /\ \A i, j \in DOMAIN handed : i < j => FileBefore(handed[i], handed[j])
    /\ \A i, j \in DOMAIN entered : i < j => DirBefore(entered[i], entered[j])
    /\ \A e \in Range(entered) : \A p \in Candidates :
          DueBefore(p, e) => p \in Range(handed)

\* A recursive walk of a tree with nested and sibling subdirectories is over.
C8_Witness ==
    /\ WalkOver
    /\ pc = "done"
    /\ recursive
    /\ Len(entered) >= 6
    /\ Len(handed) >= 6
    /\ \E i \in DOMAIN handed : Len(handed[i]) = 3

====
